---- MODULE Spec2Model ----
(***************************************************************************)
(* OCR_App: the line reconstructor, document walker and engine session of  *)
(* ocr.py and the batch driver of main.py.                                 *)
(*                                                                         *)
(* A text is a sequence of characters (one-character strings); the fixed   *)
(* literals of the sources ("[warning] File not found: ", "# ", ...) are   *)
(* kept as single elements of such a sequence.                             *)
(*                                                                         *)
(* Geometry is kept in integers.  Region points have integer coordinates,  *)
(* so with 4-point regions                                                 *)
(*     y4, x4          = 4  * np.mean(...)        (ocr.py:47)              *)
(*     median2         = 2  * statistics.median   (ocr.py:71)              *)
(*     line_spacing20  = 20 * line_spacing        (ocr.py:72)              *)
(* and  abs(dy) <= line_spacing  is  5 * abs(dy4) <= line_spacing20.       *)
(* The float product typical_height * 0.6 is exact wherever it can equal a *)
(* difference of anchors (a multiple of 0.25), so the scaled integer       *)
(* comparison decides exactly as the float comparison does.                *)
(***************************************************************************)
EXTENDS Integers, Sequences, FiniteSets, TLC

VARIABLES
    stage,        \* extract_text_from_image: "idle", "read" or "done"
    results,      \* what reader.readtext returned (ocr.py:87)
    page_text,    \* what _format_results returned (ocr.py:88)
    _reader,      \* the module global of ocr.py:22
    built,        \* how many easyocr.Reader objects the process has constructed
    pc,           \* per thread: where it stands in _ensure_reader
    arg,          \* per thread: the languages argument of its call
    local,        \* per thread: the Reader it constructed, not yet stored
    got,          \* per thread: what its last call returned
    pdf_pages,    \* extract_text_from_pdf: the pages of the document walked
    document,     \* extract_text_from_pdf: its outcome
    files,        \* run_ocr_on_files: the files argument
    languages,    \* run_ocr_on_files: the languages argument
    file_paths,   \* run_ocr_on_files: the resolved paths (main.py:59)
    outputs,      \* run_ocr_on_files: the list joined at main.py:83
    walked,       \* run_ocr_on_files: per path, how extract_text_from_path ended
    returned,     \* run_ocr_on_files: the string returned
    acquires,     \* the _ensure_reader calls of the last batch call, in order
    first_langs,  \* the languages argument of the process's first _ensure_reader call
    batch_pc      \* run_ocr_on_files: "idle", "called" or "done"

lineVars == <<stage, results, page_text>>
sessionVars == <<_reader, built>>
threadVars == <<pc, arg, local, got>>
walkerVars == <<pdf_pages, document>>
batchVars == <<files, languages, file_paths, outputs, walked, returned, acquires, first_langs, batch_pc>>
vars == <<lineVars, sessionVars, threadVars, walkerVars, batchVars>>

----------------------------------------------------------------------------
(* Bounds *)

MaxDetections == 3
NumThreads == 2
MaxPages == 3
MaxFiles == 2

----------------------------------------------------------------------------
(* Python built-ins used by the sources *)

Whitespace == {" ", "\n", "\t"}

RECURSIVE lstrip(_)
lstrip(s) ==
    IF s # <<>> /\ Head(s) \in Whitespace THEN lstrip(Tail(s)) ELSE s

RECURSIVE rstrip(_)
rstrip(s) ==
    IF s # <<>> /\ s[Len(s)] \in Whitespace
    THEN rstrip(SubSeq(s, 1, Len(s) - 1))
    ELSE s

\* str.strip()
strip(s) == rstrip(lstrip(s))

\* sep.join(parts)
RECURSIVE join(_, _)
join(sep, parts) ==
    IF parts = <<>> THEN <<>>
    ELSE IF Len(parts) = 1 THEN parts[1]
    ELSE parts[1] \o sep \o join(sep, Tail(parts))

\* str.split(sep), for a separator of one character
RECURSIVE split(_, _)
split(s, sep) ==
    IF \A i \in 1..Len(s) : s[i] # sep THEN <<s>>
    ELSE LET k == CHOOSE i \in 1..Len(s) :
                      s[i] = sep /\ \A j \in 1..(i - 1) : s[j] # sep
         IN  <<SubSeq(s, 1, k - 1)>> \o split(SubSeq(s, k + 1, Len(s)), sep)

abs(n) == IF n < 0 THEN -n ELSE n

max(a, b) == IF a >= b THEN a ELSE b

RECURSIVE SumSeq(_)
SumSeq(s) == IF s = <<>> THEN 0 ELSE Head(s) + SumSeq(Tail(s))

SeqMax(s) == CHOOSE m \in {s[i] : i \in 1..Len(s)} :
                 \A i \in 1..Len(s) : s[i] <= m

SeqMin(s) == CHOOSE m \in {s[i] : i \in 1..Len(s)} :
                 \A i \in 1..Len(s) : m <= s[i]

\* The sort keys of the sources: "yx" is (item[0], item[1]) of ocr.py:51,
\* "x" is item[1] of ocr.py:77, "int" is the natural order of numbers.
KeyLE(a, b, key) ==
    CASE key = "yx"  -> a.y4 < b.y4 \/ (a.y4 = b.y4 /\ a.x4 <= b.x4)
      [] key = "x"   -> a.x4 <= b.x4
      [] key = "int" -> a <= b

\* One insertion of a stable sort: item goes behind every element whose key
\* is not greater than its own.
RECURSIVE Insert(_, _, _)
Insert(done, item, key) ==
    IF done = <<>> THEN <<item>>
    ELSE IF KeyLE(Head(done), item, key)
         THEN <<Head(done)>> \o Insert(Tail(done), item, key)
         ELSE <<item>> \o done

\* sorted(items, key=...): stable, ascending
RECURSIVE sorted(_, _)
sorted(items, key) ==
    IF items = <<>> THEN <<>>
    ELSE Insert(sorted(SubSeq(items, 1, Len(items) - 1), key),
                items[Len(items)], key)

\* 2 * statistics.median(vals): the middle value, or the mean of the two
\* middle values
median2(vals) ==
    LET s == sorted(vals, "int")
        n == Len(s)
    IN  IF n % 2 = 1 THEN 2 * s[(n + 1) \div 2]
        ELSE s[n \div 2] + s[n \div 2 + 1]

----------------------------------------------------------------------------
(* Detections: (bbox, text, conf) of easyocr; conf is read by nothing *)

Rect(x, y, w, h) == <<<<x, y>>, <<x + w, y>>, <<x + w, y + h>>, <<x, y + h>>>>

Ys(bbox) == [i \in 1..Len(bbox) |-> bbox[i][2]]
Xs(bbox) == [i \in 1..Len(bbox) |-> bbox[i][1]]

\* 4 * np.mean(vals) for the 4 points of a region
mean4(vals) == (4 * SumSeq(vals)) \div Len(vals)

\* Regions of 10 x 10 glyphs on three lines 8 apart, one tall region, and
\* one skewed quadrilateral
Boxes ==
    { Rect(0, 0, 10, 10), Rect(15, 8, 10, 10), Rect(0, 16, 10, 10),
      Rect(15, 10, 10, 40),
      <<<<0, 0>>, <<10, 2>>, <<10, 12>>, <<0, 10>>>> }

Texts == { <<"a">>, <<" ", "b", "c", " ">>, <<" ">> }

Detections == [bbox : Boxes, text : Texts]

SeqsUpTo(S, n) == UNION { [1..k -> S] : k \in 0..n }

ResultLists == SeqsUpTo(Detections, MaxDetections)

----------------------------------------------------------------------------
(* ocr.py: the line reconstructor *)

SpacingFactor10 == 6     \* 0.6, in tenths
SpacingFloor == 8        \* 8.0

\* ocr.py:49  isinstance(text, str) and text.strip()
HasText(d) == strip(d.text) # <<>>

\* ocr.py:47  one item of the generator: (mean y, mean x, bbox, text)
Item(d) == [y4 |-> mean4(Ys(d.bbox)), x4 |-> mean4(Xs(d.bbox)),
            bbox |-> d.bbox, text |-> d.text]

RECURSIVE Items(_)
Items(res) ==
    IF res = <<>> THEN <<>>
    ELSE IF HasText(Head(res)) THEN <<Item(Head(res))>> \o Items(Tail(res))
    ELSE Items(Tail(res))

\* LastOfLine with a fault: an item is compared with the first member of the line
FirstOfLine(prev_line) == prev_line[1]

\* ocr.py:58-59  the member of the current line an item is compared with
LastOfLine(prev_line) == prev_line[Len(prev_line)]

\* SameLine with a fault: the comparison the wrong way round
SameLine_inverted(item, prev_line, line_spacing20) ==
    5 * abs(item.y4 - prev_line[Len(prev_line)].y4) >= line_spacing20

\* ocr.py:59  abs(item[0] - prev_line[-1][0]) <= line_spacing
SameLine(item, prev_line, line_spacing20) ==
    5 * abs(item.y4 - LastOfLine(prev_line).y4) <= line_spacing20

\* ocr.py:56-62  the grouping loop
RECURSIVE GroupLoop(_, _, _)
GroupLoop(lines, rest, line_spacing20) ==
    IF rest = <<>> THEN lines
    ELSE LET item == Head(rest)
             prev_line == lines[Len(lines)]
         IN  IF SameLine(item, prev_line, line_spacing20)
             THEN GroupLoop([lines EXCEPT ![Len(lines)] = Append(prev_line, item)],
                            Tail(rest), line_spacing20)
             ELSE GroupLoop(Append(lines, <<item>>), Tail(rest), line_spacing20)

_group_by_line(res, line_spacing20) ==
    LET sorted_items == sorted(Items(res), "yx")
    IN  IF sorted_items = <<>> THEN <<>>
        ELSE GroupLoop(<<<<sorted_items[1]>>>>, Tail(sorted_items), line_spacing20)

\* ocr.py:70  one height per result, whatever its text
heights(res) ==
    [i \in 1..Len(res) |-> SeqMax(Ys(res[i].bbox)) - SeqMin(Ys(res[i].bbox))]

\* ocr.py:71-72  20 * max(typical_height * 0.6, 8.0)
line_spacing20(res) ==
    LET typical_height2 == IF heights(res) # <<>> THEN median2(heights(res)) ELSE 20
    IN  max(typical_height2 * SpacingFactor10, 20 * SpacingFloor)

\* ocr.py:76-79  one output line of a group
LineText(line) ==
    LET line_sorted == sorted(line, "x")
    IN  join(<<" ">>, [i \in 1..Len(line_sorted) |-> strip(line_sorted[i].text)])

_format_results(res) ==
    IF res = <<>> THEN <<>>
    ELSE LET grouped_lines == _group_by_line(res, line_spacing20(res))
         IN  join(<<"\n">>,
                  [i \in 1..Len(grouped_lines) |-> LineText(grouped_lines[i])])

----------------------------------------------------------------------------
(* ocr.py: the engine session *)

En == <<"e", "n">>
Fr == <<"f", "r">>

\* ocr.py:21
_DEFAULT_LANGUAGES == <<En>>

\* ocr.py:22  None, as a Reader no construction returns
None == [id |-> 0, lang_list |-> <<>>]

\* The languages argument of a call: None (here <<>>) or a non-empty list
LanguageArgs == { <<>>, <<En>>, <<Fr>>, <<En, Fr>> }

\* ocr.py:31  list(languages) if languages else _DEFAULT_LANGUAGES
langs(languages_arg) == IF languages_arg # <<>> THEN languages_arg ELSE _DEFAULT_LANGUAGES

\* ocr.py:33-39  the n-th Reader object of the process
Reader(languages_arg, n) == [id |-> n, lang_list |-> langs(languages_arg)]

\* IsCached with a fault: a reader of other languages is not reused
IsCached_same_languages(reader, languages_arg) ==
    reader # None /\ reader.lang_list = langs(languages_arg)

\* ocr.py:28  if _reader is not None
IsCached(reader, languages_arg) == reader # None

\* AfterFailedConstruct with a fault: the global is set although the
\* construction raised
AfterFailedConstruct_stored(reader, languages_arg) ==
    [id |-> -1, lang_list |-> langs(languages_arg)]

\* ocr.py:33  what the global holds after easyocr.Reader(...) raised
AfterFailedConstruct(reader, languages_arg) == reader

\* One entry of the record of _ensure_reader calls
Acquire(st, languages_arg, outcome, reader) ==
    [file |-> st.file, languages |-> languages_arg, outcome |-> outcome, got |-> reader]

\* ocr.py:25-40 run by one thread.  st holds the global, the number of
\* Readers constructed and the record of calls; ok tells whether
\* easyocr.Reader(...) returns or raises.
_ensure_reader(languages_arg, st, ok) ==
    IF IsCached(st.reader, languages_arg)
    THEN [raised |-> FALSE, got |-> st.reader,
          st |-> [st EXCEPT !.log = Append(@, Acquire(st, languages_arg, "reused", st.reader))]]
    ELSE IF ok
    THEN LET r == Reader(languages_arg, st.built + 1)
         IN  [raised |-> FALSE, got |-> r,
              st |-> [st EXCEPT !.reader = r, !.built = @ + 1,
                                !.log = Append(@, Acquire(st, languages_arg, "constructed", r))]]
    ELSE [raised |-> TRUE, got |-> None,
          st |-> [st EXCEPT !.reader = AfterFailedConstruct(st.reader, languages_arg),
                            !.log = Append(@, Acquire(st, languages_arg, "failed", None))]]

----------------------------------------------------------------------------
(* ocr.py: the document walker.  An image is given by the detections the   *)
(* engine finds in it.                                                     *)

\* str(exc) of the exception easyocr.Reader(...) raises
EngineError == <<"engine construction failed">>

Raised(msg, st) == [raised |-> TRUE, msg |-> msg, text |-> <<>>, texts |-> <<>>, st |-> st]

Returned(text, texts, st) ==
    [raised |-> FALSE, msg |-> <<>>, text |-> text, texts |-> texts, st |-> st]

\* Pages: nothing detected, only a whitespace detection, one line, two lines
NoDetections == <<>>
BlankPage == <<[bbox |-> Rect(0, 0, 10, 10), text |-> <<" ">>]>>
PageA == <<[bbox |-> Rect(0, 0, 10, 10), text |-> <<"a">>]>>
PageB == <<[bbox |-> Rect(0, 16, 10, 10), text |-> <<"a">>],
           [bbox |-> Rect(0, 0, 10, 10), text |-> <<" ", "b", "c", " ">>]>>

Pages == {NoDetections, BlankPage, PageA, PageB}

\* The pages of the documents walked on their own
PdfPages == {NoDetections, PageA, PageB}

\* ocr.py:87-88  _format_results(reader.readtext(image_np)), per image
readtext_formatted == [image \in Pages |-> _format_results(image)]

\* ocr.py:86-88  with e, what _ensure_reader gave
Recognized(image, e) ==
    IF e.raised THEN Raised(EngineError, e.st)
    ELSE Returned(readtext_formatted[image], <<readtext_formatted[image]>>, e.st)

\* ocr.py:83-88
extract_text_from_image(image, languages_arg, st, ok) ==
    Recognized(image, _ensure_reader(languages_arg, st, ok))

\* NonEmptyTexts with a fault: empty page texts are joined too
AllTexts(texts) == texts

\* ocr.py:101  text for text in texts if text
RECURSIVE NonEmptyTexts(_)
NonEmptyTexts(texts) ==
    IF texts = <<>> THEN <<>>
    ELSE IF Head(texts) # <<>> THEN <<Head(texts)>> \o NonEmptyTexts(Tail(texts))
    ELSE NonEmptyTexts(Tail(texts))

\* ocr.py:95-101  the page loop and the join; PageDone goes on after a
\* page that gave r
RECURSIVE PdfLoop(_, _, _, _, _)
RECURSIVE PageDone(_, _, _, _, _)
PageDone(pages, texts, languages_arg, ok, r) ==
    IF r.raised THEN r
    ELSE PdfLoop(Tail(pages), Append(texts, r.text), languages_arg, r.st, ok)

PdfLoop(pages, texts, languages_arg, st, ok) ==
    IF pages = <<>>
    THEN Returned(join(<<"\n", "\n">>, NonEmptyTexts(texts)), texts, st)
    ELSE PageDone(pages, texts, languages_arg, ok,
                  extract_text_from_image(Head(pages), languages_arg, st, ok))

\* ocr.py:91-101
extract_text_from_pdf(pages, languages_arg, st, ok) ==
    PdfLoop(pages, <<>>, languages_arg, st, ok)

\* str.lower(), on the letters file suffixes and language codes are made of
LowerChar(c) ==
    CASE c = "E" -> "e" [] c = "F" -> "f" [] c = "G" -> "g" [] c = "N" -> "n"
      [] c = "P" -> "p" [] c = "R" -> "r" [] c = "D" -> "d" [] OTHER -> c

lower(s) == [i \in 1..Len(s) |-> LowerChar(s[i])]

\* ocr.py:20
_SUPPORTED_IMAGE_EXTENSIONS ==
    { <<".", "p", "n", "g">>, <<".", "j", "p", "g">>, <<".", "j", "p", "e", "g">>,
      <<".", "b", "m", "p">>, <<".", "t", "i", "f", "f">>, <<".", "t", "i", "f">> }

\* str(exc) of the exception Image.open raises for a file that holds no image
OpenError == <<"cannot identify image file">>

\* ocr.py:104-112.  A path is its stem, its suffix, whether the file
\* exists, and the pages (for an image: the one image, or none when the
\* file holds no image) of the file.
extract_text_from_path(path, languages_arg, st, ok) ==
    LET suffix == lower(path.suffix)
    IN  IF suffix = <<".", "p", "d", "f">>
        THEN extract_text_from_pdf(path.pages, languages_arg, st, ok)
        ELSE IF suffix \in _SUPPORTED_IMAGE_EXTENSIONS
        THEN IF path.pages = <<>> THEN Raised(OpenError, st)
             ELSE extract_text_from_image(path.pages[1], languages_arg, st, ok)
        ELSE Raised(<<"Unsupported file type: ">> \o suffix, st)


----------------------------------------------------------------------------
(* main.py: the batch driver *)

\* The characters language strings are made of, in code point order
Alphabet == <<" ", ",", "E", "F", "N", "R", "e", "f", "n", "r">>

ord(c) == CHOOSE i \in 1..Len(Alphabet) : Alphabet[i] = c

\* a <= b for strings
RECURSIVE StrLE(_, _)
StrLE(a, b) ==
    IF a = <<>> THEN TRUE
    ELSE IF b = <<>> THEN FALSE
    ELSE IF Head(a) = Head(b) THEN StrLE(Tail(a), Tail(b))
    ELSE ord(Head(a)) < ord(Head(b))

\* sorted(a set of strings)
RECURSIVE SortedSet(_)
SortedSet(S) ==
    IF S = {} THEN <<>>
    ELSE LET m == CHOOSE x \in S : \A y \in S : StrLE(x, y)
         IN  <<m>> \o SortedSet(S \ {m})

Elements(s) == { s[i] : i \in 1..Len(s) }

\* main.py:24-33
_normalize_languages(languages_in) ==
    IF languages_in = <<>> THEN <<>>
    ELSE LET tokens == UNION { Elements(split(lang, ",")) : lang \in Elements(languages_in) }
             normalized == { lower(strip(token)) : token \in tokens } \ {<<>>}
         IN  SortedSet(normalized)

\* No name: None or the empty string
NoName == [stem |-> <<>>, suffix |-> <<>>, exists |-> FALSE, pages |-> <<>>]

\* main.py:45-54  one item of the sequence: a str or Path, or a dict or
\* object with "name" and "path"
RECURSIVE ResolveLoop(_)
ResolveLoop(sequence) ==
    IF sequence = <<>> THEN <<>>
    ELSE LET item == Head(sequence)
             name == IF item.name # NoName THEN item.name ELSE item.path
         IN  IF item.kind = "path" THEN <<item.path>> \o ResolveLoop(Tail(sequence))
             ELSE IF name # NoName THEN <<name>> \o ResolveLoop(Tail(sequence))
             ELSE ResolveLoop(Tail(sequence))

\* main.py:36-55.  files_in.list tells a list or tuple from a single value.
_resolve_file_paths(files_in) ==
    IF files_in.items = <<>> THEN <<>>
    ELSE IF ~files_in.list /\ files_in.items[1].kind = "path"
    THEN <<files_in.items[1].path>>
    ELSE ResolveLoop(files_in.items)

\* path.name
PathName(path) == path.stem \o path.suffix

\* TextOrPlaceholder with a fault: an empty text stays empty
TextOrNothing(text) == text

\* main.py:79, 81  text or "(No text detected)"
TextOrPlaceholder(text) == IF text # <<>> THEN text ELSE <<"(No text detected)">>

\* main.py:69
WarningEntry(path) == <<"[warning] File not found: ">> \o PathName(path)

\* main.py:74
ErrorEntry(path, msg) ==
    <<"[error] Failed to process ">> \o PathName(path) \o <<": ">> \o msg

\* TextEntry with a fault: the header whenever there is a file
TextEntry_always_header(path, text, n) ==
    IF n >= 1
    THEN <<"# ">> \o (path.stem \o path.suffix) \o <<"\n">>
             \o (IF text # <<>> THEN text ELSE <<"(No text detected)">>)
    ELSE IF text # <<>> THEN text ELSE <<"(No text detected)">>

\* main.py:77-81
TextEntry(path, text, n) ==
    IF n > 1
    THEN <<"# ">> \o PathName(path) \o <<"\n">> \o TextOrPlaceholder(text)
    ELSE TextOrPlaceholder(text)

\* Continue with a fault: a failure ends the loop
Break(i, n) == n + 1

\* main.py:70, 75  continue: the loop goes on with the next of the n paths
Continue(i, n) == i + 1

\* main.py:68-81  the body of the loop for the i-th of n paths; r is what
\* extract_text_from_path gives for it.  next is the index the loop goes on with.
FileStep(acc, path, i, n, r) ==
    IF ~path.exists
    THEN [outputs |-> Append(acc.outputs, WarningEntry(path)),
          walked |-> Append(acc.walked, [kind |-> "missing", text |-> <<>>, msg |-> <<>>]),
          st |-> acc.st, next |-> Continue(i, n)]
    ELSE IF r.raised
    THEN [outputs |-> Append(acc.outputs, ErrorEntry(path, r.msg)),
          walked |-> Append(acc.walked, [kind |-> "raised", text |-> <<>>, msg |-> r.msg]),
          st |-> r.st, next |-> Continue(i, n)]
    ELSE [outputs |-> Append(acc.outputs, TextEntry(path, r.text, n)),
          walked |-> Append(acc.walked, [kind |-> "ok", text |-> r.text, msg |-> <<>>]),
          st |-> r.st, next |-> i + 1]

\* main.py:67-81  the loop over the paths, from path acc.next on.  A Reader
\* construction tried while path i is processed raises iff i is in fails.
RECURSIVE BatchLoop(_, _, _, _)
BatchLoop(paths, acc, languages_arg, fails) ==
    IF acc.next > Len(paths) THEN acc
    ELSE BatchLoop(paths,
                   FileStep(acc, paths[acc.next], acc.next, Len(paths),
                            extract_text_from_path(paths[acc.next], languages_arg,
                                                   [acc.st EXCEPT !.file = acc.next],
                                                   acc.next \notin fails)),
                   languages_arg, fails)

\* main.py:83  what the call leaves: the paths, the entries and their join
Joined(paths, acc) ==
    [file_paths |-> paths, outputs |-> acc.outputs, walked |-> acc.walked,
     returned |-> join(<<"\n", "\n">>, acc.outputs), st |-> acc.st]

\* main.py:60-83  with the paths resolved
BatchOf(paths, languages_in, st, fails) ==
    IF paths = <<>>
    THEN [file_paths |-> <<>>, outputs |-> <<>>, walked |-> <<>>, returned |-> <<>>, st |-> st]
    ELSE Joined(paths,
                BatchLoop(paths, [outputs |-> <<>>, walked |-> <<>>, st |-> st, next |-> 1],
                          _normalize_languages(languages_in), fails))

\* main.py:58-83
run_ocr_on_files(files_in, languages_in, st, fails) ==
    BatchOf(_resolve_file_paths(files_in), languages_in, st, fails)

\* The files of the file system
MissingPng == [stem |-> <<"m">>, suffix |-> <<".", "p", "n", "g">>, exists |-> FALSE, pages |-> <<>>]
Docx == [stem |-> <<"x">>, suffix |-> <<".", "d", "o", "c", "x">>, exists |-> TRUE, pages |-> <<>>]
ImageA == [stem |-> <<"a">>, suffix |-> <<".", "P", "N", "G">>, exists |-> TRUE, pages |-> <<PageA>>]
ImageBlank == [stem |-> <<"b">>, suffix |-> <<".", "j", "p", "g">>, exists |-> TRUE, pages |-> <<BlankPage>>]
ImageNone == [stem |-> <<"e">>, suffix |-> <<".", "t", "i", "f">>, exists |-> TRUE, pages |-> <<NoDetections>>]
PdfAB == [stem |-> <<"d">>, suffix |-> <<".", "P", "d", "f">>, exists |-> TRUE, pages |-> <<PageA, BlankPage>>]

Corrupt == [stem |-> <<"c">>, suffix |-> <<".", "j", "p", "e", "g">>, exists |-> TRUE, pages |-> <<>>]

Paths == {MissingPng, Docx, Corrupt, ImageA, ImageBlank, ImageNone, PdfAB}

\* What the front end hands over: paths, and records naming a path
FileRefs ==
    { [kind |-> "path", name |-> NoName, path |-> p] : p \in Paths } \cup
    { [kind |-> "record", name |-> ImageA, path |-> NoName],
      [kind |-> "record", name |-> NoName, path |-> PdfAB],
      [kind |-> "record", name |-> NoName, path |-> NoName] }

FileInputs ==
    { [list |-> TRUE, items |-> s] : s \in SeqsUpTo(FileRefs, MaxFiles) } \cup
    { [list |-> FALSE, items |-> <<r>>] : r \in FileRefs }

\* The language selections handed over
LanguageInputs ==
    { <<>>,
      << <<"e", "n">> >>,
      << <<" ", "F", "R">>, <<"f", "r">> >>,
      << <<"f", "r", ",", "E", "n", ",", " ">> >> }

----------------------------------------------------------------------------
(* extract_text_from_image, from the recognition on (ocr.py:87-88) *)

LinesIdle == stage = "idle" /\ results = <<>> /\ page_text = <<>>

SessionFresh == _reader = None /\ built = 0

Threads == 1..NumThreads

ThreadsIdle ==
    /\ pc = [t \in Threads |-> "idle"]
    /\ arg = [t \in Threads |-> <<>>]
    /\ local = [t \in Threads |-> None]
    /\ got = [t \in Threads |-> None]

NoDocument == [raised |-> FALSE, msg |-> <<>>, text |-> <<>>, texts |-> <<>>, done |-> FALSE]

WalkerIdle == pdf_pages = <<>> /\ document = NoDocument

BatchIdle ==
    /\ files = [list |-> TRUE, items |-> <<>>]
    /\ languages = <<>>
    /\ file_paths = <<>>
    /\ outputs = <<>>
    /\ walked = <<>>
    /\ returned = <<>>
    /\ acquires = <<>>
    /\ first_langs = [set |-> FALSE, languages |-> <<>>]
    /\ batch_pc = "idle"

InitLines == LinesIdle /\ SessionFresh /\ ThreadsIdle /\ WalkerIdle /\ BatchIdle

\* ocr.py:87  the engine returns its detections, in no particular order
Readtext ==
    /\ stage = "idle"
    /\ \E r \in ResultLists : results' = r
    /\ stage' = "read"
    /\ UNCHANGED <<page_text, sessionVars, threadVars, walkerVars, batchVars>>

\* ocr.py:88
FormatResults ==
    /\ stage = "read"
    /\ page_text' = _format_results(results)
    /\ stage' = "done"
    /\ UNCHANGED <<results, sessionVars, threadVars, walkerVars, batchVars>>

NextLines == Readtext \/ FormatResults

SpecLines == InitLines /\ [][NextLines]_vars

----------------------------------------------------------------------------
(* _ensure_reader called from concurrent batch calls: each step is one     *)
(* access to the module global or one call of the engine's constructor     *)

\* ocr.py:25  a thread enters _ensure_reader
EnsureReaderCall(t) ==
    /\ pc[t] \in {"idle", "returned", "raised"}
    /\ \E languages_arg \in LanguageArgs : arg' = [arg EXCEPT ![t] = languages_arg]
    /\ pc' = [pc EXCEPT ![t] = "check"]
    /\ UNCHANGED <<lineVars, walkerVars, batchVars, sessionVars, local, got>>

\* ocr.py:28-29  the global is read; a cached reader is returned at once
EnsureReaderCheck(t) ==
    /\ pc[t] = "check"
    /\ IF IsCached(_reader, arg[t])
       THEN /\ got' = [got EXCEPT ![t] = _reader]
            /\ pc' = [pc EXCEPT ![t] = "returned"]
       ELSE /\ pc' = [pc EXCEPT ![t] = "construct"]
            /\ UNCHANGED got
    /\ UNCHANGED <<lineVars, walkerVars, batchVars, sessionVars, arg, local>>

\* ocr.py:31-39  easyocr.Reader(...) returns a new object
ReaderConstruct(t) ==
    /\ pc[t] = "construct"
    /\ built' = built + 1
    /\ local' = [local EXCEPT ![t] = Reader(arg[t], built + 1)]
    /\ pc' = [pc EXCEPT ![t] = "store"]
    /\ UNCHANGED <<lineVars, walkerVars, batchVars, _reader, arg, got>>

\* ocr.py:33-39  easyocr.Reader(...) raises: the assignment never happens
ReaderConstructFails(t) ==
    /\ pc[t] = "construct"
    /\ pc' = [pc EXCEPT ![t] = "raised"]
    /\ UNCHANGED <<lineVars, walkerVars, batchVars, sessionVars, arg, local, got>>

\* ocr.py:33  _reader = ...
EnsureReaderStore(t) ==
    /\ pc[t] = "store"
    /\ _reader' = local[t]
    /\ pc' = [pc EXCEPT ![t] = "return"]
    /\ UNCHANGED <<lineVars, walkerVars, batchVars, built, arg, local, got>>

\* ocr.py:40  return _reader: the global is read again
EnsureReaderReturn(t) ==
    /\ pc[t] = "return"
    /\ got' = [got EXCEPT ![t] = _reader]
    /\ pc' = [pc EXCEPT ![t] = "returned"]
    /\ UNCHANGED <<lineVars, walkerVars, batchVars, sessionVars, arg, local>>

InitSession == LinesIdle /\ SessionFresh /\ ThreadsIdle /\ WalkerIdle /\ BatchIdle

NextSession ==
    \E t \in Threads :
        \/ EnsureReaderCall(t)
        \/ EnsureReaderCheck(t)
        \/ ReaderConstruct(t)
        \/ ReaderConstructFails(t)
        \/ EnsureReaderStore(t)
        \/ EnsureReaderReturn(t)

SpecSession == InitSession /\ [][NextSession]_vars

----------------------------------------------------------------------------
(* extract_text_from_pdf called again and again by one thread *)

Session(file) == [reader |-> _reader, built |-> built, log |-> <<>>, file |-> file]

\* The state a walk that gave r leaves
Walked(r) ==
    /\ document' = [raised |-> r.raised, msg |-> r.msg, text |-> r.text,
                    texts |-> r.texts, done |-> TRUE]
    /\ _reader' = r.st.reader
    /\ built' = r.st.built

\* ocr.py:91-101
ExtractTextFromPdf ==
    \E pages \in SeqsUpTo(PdfPages, MaxPages), languages_arg \in LanguageArgs, ok \in BOOLEAN :
        /\ pdf_pages' = pages
        /\ Walked(extract_text_from_pdf(pages, languages_arg, Session(0), ok))
        /\ UNCHANGED <<lineVars, threadVars, batchVars>>

InitWalker == LinesIdle /\ SessionFresh /\ ThreadsIdle /\ WalkerIdle /\ BatchIdle

NextWalker == ExtractTextFromPdf

SpecWalker == InitWalker /\ [][NextWalker]_vars

----------------------------------------------------------------------------
(* Batch calls, one after the other (main.py:102) *)

\* The front end calls run_ocr_on_files with the files and languages chosen
Submit ==
    /\ batch_pc = "idle"
    /\ \E f \in FileInputs, l \in LanguageInputs : files' = f /\ languages' = l
    /\ batch_pc' = "called"
    /\ UNCHANGED <<lineVars, sessionVars, threadVars, walkerVars,
                   file_paths, outputs, walked, returned, acquires, first_langs>>

\* The state a call that gave r leaves
Leaves(r) ==
    /\ file_paths' = r.file_paths
    /\ outputs' = r.outputs
    /\ walked' = r.walked
    /\ returned' = r.returned
    /\ acquires' = r.st.log
    /\ _reader' = r.st.reader
    /\ built' = r.st.built
    /\ first_langs' = IF first_langs.set \/ r.st.log = <<>> THEN first_langs
                      ELSE [set |-> TRUE, languages |-> r.st.log[1].languages]

\* main.py:58-83
RunOcrOnFiles ==
    /\ batch_pc = "called"
    /\ \E fails \in SUBSET (1..MaxFiles) :
           Leaves(run_ocr_on_files(files, languages, Session(0), fails))
    /\ batch_pc' = "done"
    /\ UNCHANGED <<lineVars, threadVars, walkerVars, files, languages>>

\* The front end shows the string; what the call held is gone
Shown ==
    /\ batch_pc = "done"
    /\ files' = [list |-> TRUE, items |-> <<>>]
    /\ languages' = <<>>
    /\ file_paths' = <<>>
    /\ outputs' = <<>>
    /\ walked' = <<>>
    /\ returned' = <<>>
    /\ acquires' = <<>>
    /\ batch_pc' = "idle"
    /\ UNCHANGED <<lineVars, sessionVars, threadVars, walkerVars, first_langs>>

InitBatch == LinesIdle /\ SessionFresh /\ ThreadsIdle /\ WalkerIdle /\ BatchIdle

NextBatch == Submit \/ RunOcrOnFiles \/ Shown

SpecBatch == InitBatch /\ [][NextBatch]_vars

----------------------------------------------------------------------------
(* Helpers of the properties *)

\* The lines of a text: its parts between newline characters
SplitLines(text) == split(text, "\n")

Bijections(n) == { p \in [1..n -> 1..n] : \A i, j \in 1..n : p[i] = p[j] => i = j }

Orderings(s) == { [i \in 1..Len(s) |-> s[p[i]]] : p \in Bijections(Len(s)) }

\* The detections of a result list that survive the empty-text filter
Survivors(res) == Items(res)

\* Every two surviving detections are further apart than the line spacing
PairwiseSeparated(res) ==
    LET s == Survivors(res)
    IN  \A i, j \in 1..Len(s) :
            i # j => 5 * abs(s[i].y4 - s[j].y4) > line_spacing20(res)

\* In (vertical, horizontal) order every surviving detection is within the
\* line spacing of the one before it
Chained(res) ==
    LET s == sorted(Survivors(res), "yx")
    IN  /\ s # <<>>
        /\ \A i \in 2..Len(s) :
               5 * abs(s[i].y4 - s[i - 1].y4) <= line_spacing20(res)

DistinctAnchors(res) ==
    LET s == Survivors(res)
    IN  \A i, j \in 1..Len(s) :
            i # j => (s[i].y4 # s[j].y4 \/ s[i].x4 # s[j].x4)

----------------------------------------------------------------------------
(* Properties *)

\* C1: the page text is what the detections with non-empty trimmed text
\* alone produce: whitespace-only detections have no influence on the line
\* spacing, so adding or removing them never changes the page text.
C1_WhitespaceDetectionsHaveNoInfluence ==
    stage = "done" => page_text = _format_results(SelectSeq(results, HasText))

\* C2: N surviving detections whose vertical anchors differ pairwise by
\* more than the line spacing give exactly N lines, the k-th line being
\* the trimmed text of the detection with the k-th smallest anchor.
C2_SeparatedDetectionsOneLineEach ==
    (stage = "done" /\ Survivors(results) # <<>> /\ PairwiseSeparated(results)) =>
        LET s == Survivors(results)
            lines == SplitLines(page_text)
        IN  /\ Len(lines) = Len(s)
            /\ \E p \in Bijections(Len(s)) :
                   /\ \A i \in 1..(Len(s) - 1) : s[p[i]].y4 < s[p[i + 1]].y4
                   /\ \A i \in 1..Len(s) : lines[i] = strip(s[p[i]].text)

C2_Witness ==
    /\ stage = "done"
    /\ PairwiseSeparated(results)
    /\ Len(Survivors(results)) = 3
    /\ Survivors(results)[1].y4 > Survivors(results)[3].y4

\* C3 (as stated): a chained detection set gives one line, the same for
\* every permutation of the input.
C3_ChainedOneLineAnyPermutation ==
    (stage = "done" /\ Chained(results)) =>
        /\ Len(SplitLines(page_text)) = 1
        /\ \A q \in Orderings(results) : _format_results(q) = page_text

\* C3 (amended): a non-empty chained detection set gives exactly one line,
\* its members joined by single spaces in non-decreasing horizontal-anchor
\* order; the line is the same for every permutation of the input when no
\* two surviving detections share both anchors.
C3_ChainedOneLine ==
    (stage = "done" /\ Chained(results)) =>
        LET s == Survivors(results)
        IN  /\ Len(SplitLines(page_text)) = 1
            /\ \E p \in Bijections(Len(s)) :
                   /\ \A i \in 1..(Len(s) - 1) : s[p[i]].x4 <= s[p[i + 1]].x4
                   /\ page_text = join(<<" ">>, [i \in 1..Len(s) |-> strip(s[p[i]].text)])
            /\ DistinctAnchors(results) =>
                   \A q \in Orderings(results) : _format_results(q) = page_text

C3_Witness ==
    LET s == sorted(Survivors(results), "yx")
    IN  /\ stage = "done"
        /\ Chained(results)
        /\ DistinctAnchors(results)
        /\ Len(s) = 3
        /\ 5 * abs(s[3].y4 - s[1].y4) > line_spacing20(results)
        /\ Survivors(results) # s

\* C4: under any interleaving of concurrent acquire calls the engine is
\* constructed at most once, and every caller receives that one instance.
C4_ConstructedAtMostOnce ==
    /\ built <= 1
    /\ \A t, u \in Threads :
           (pc[t] = "returned" /\ pc[u] = "returned") => got[t] = got[u]

\* How often the blank-line separator occurs in a text
CountSeparators(text) ==
    Cardinality({ i \in 1..(Len(text) - 1) : text[i] = "\n" /\ text[i + 1] = "\n" })

\* The pages of a document whose page text is not empty, in page order
RECURSIVE NonEmptyPages(_)
NonEmptyPages(pages) ==
    IF pages = <<>> THEN <<>>
    ELSE IF \E i \in 1..Len(Head(pages)) : Head(pages)[i].text \notin {<<>>, <<" ">>}
         THEN <<Head(pages)>> \o NonEmptyPages(Tail(pages))
         ELSE NonEmptyPages(Tail(pages))

\* C8: a walked document is its non-empty page texts, in page order, with
\* one blank line between neighbours: k non-empty pages give k-1
\* separators, none leading, trailing or doubled, and the text is empty
\* exactly when every page is empty.
C8_NonEmptyPagesJoinedByBlankLine ==
    (document.done /\ ~document.raised) =>
        LET kept == NonEmptyPages(pdf_pages)
            k == Len(kept)
            text == document.text
        IN  /\ Len(document.texts) = Len(pdf_pages)
            /\ \A i \in 1..Len(pdf_pages) : document.texts[i] = _format_results(pdf_pages[i])
            /\ \A i \in 1..k : _format_results(kept[i]) # <<>>
            /\ text = join(<<"\n", "\n">>, [i \in 1..k |-> _format_results(kept[i])])
            /\ CountSeparators(text) = IF k = 0 THEN 0 ELSE k - 1
            /\ (text = <<>>) <=> (k = 0)
            /\ text # <<>> => (text[1] # "\n" /\ text[Len(text)] # "\n")
            /\ \A i \in 1..(Len(text) - 2) :
                   ~(text[i] = "\n" /\ text[i + 1] = "\n" /\ text[i + 2] = "\n")

C8_Witness ==
    /\ document.done
    /\ ~document.raised
    /\ Len(pdf_pages) = 3
    /\ Len(NonEmptyPages(pdf_pages)) = 2
    /\ pdf_pages[2] = NoDetections
    /\ pdf_pages[1] # pdf_pages[3]

Default(languages_arg) == IF languages_arg = <<>> THEN <<<<"e", "n">>>> ELSE languages_arg

FileName(path) == path.stem \o path.suffix

\* C5 (as stated): the session is bound to the Language Set of the first
\* acquire of the process.
C5_BoundToFirstAcquire ==
    _reader # None =>
        (first_langs.set /\ _reader.lang_list = Default(first_langs.languages))

\* C5 (amended): in a sequential sequence of acquires the first acquire
\* whose construction succeeds binds the engine to its Language Set (the
\* default when none is given); from then on the handle and its languages
\* never change, and every later acquire, whatever it asks for, returns
\* that handle.
C5_BoundOnceAtFirstSuccess ==
    [][ /\ _reader # None =>
               /\ _reader' = _reader
               /\ \A k \in 1..Len(acquires') :
                      acquires'[k].outcome = "reused" /\ acquires'[k].got = _reader
        /\ (_reader = None /\ _reader' # None) =>
               \E k \in 1..Len(acquires') :
                   /\ acquires'[k].outcome = "constructed"
                   /\ acquires'[k].got = _reader'
                   /\ _reader'.lang_list = Default(acquires'[k].languages)
                   /\ \A j \in 1..(k - 1) : acquires'[j].outcome = "failed"
                   /\ \A j \in (k + 1)..Len(acquires') :
                          acquires'[j].outcome = "reused" /\ acquires'[j].got = _reader'
      ]_vars

C5_Witness ==
    /\ batch_pc = "done"
    /\ _reader # None
    /\ \E k \in 1..Len(acquires) :
           /\ acquires[k].outcome = "reused"
           /\ acquires[k].got = _reader
           /\ Default(acquires[k].languages) # _reader.lang_list

C7_HeaderOnEveryEntry ==
    batch_pc = "done" =>
        \A i \in 1..Len(file_paths) :
            LET header == <<"# ">> \o FileName(file_paths[i]) \o <<"\n">>
            IN  IF Len(file_paths) > 1
                THEN /\ Len(outputs[i]) >= Len(header)
                     /\ SubSeq(outputs[i], 1, Len(header)) = header
                ELSE outputs[i][1] # "# "

\* C7 (amended): in a batch of more than one resolved path the entry of
\* every file the walker returned a text for is the header naming the file
\* and then the text (or the placeholder); warning and error entries carry
\* no header; the entry of a batch of one resolved path carries none.
C7_HeaderOnTextEntries ==
    batch_pc = "done" =>
        \A i \in 1..Len(file_paths) :
            LET header == <<"# ">> \o FileName(file_paths[i]) \o <<"\n">>
                body == IF walked[i].text = <<>> THEN <<"(No text detected)">>
                        ELSE walked[i].text
            IN  /\ (walked[i].kind = "ok" /\ Len(file_paths) > 1) =>
                       outputs[i] = header \o body
                /\ (walked[i].kind = "ok" /\ Len(file_paths) = 1) =>
                       outputs[i] = body
                /\ walked[i].kind # "ok" =>
                       outputs[i][1] \in {"[warning] File not found: ",
                                          "[error] Failed to process "}

C7_Witness ==
    /\ batch_pc = "done"
    /\ Len(file_paths) = 2
    /\ walked[1].kind = "missing"
    /\ walked[2].kind = "ok"
    /\ walked[2].text # <<>>

\* C9: a file whose pages hold no detection with text gives an empty page
\* text and an empty document text from the walker, which never emits the
\* placeholder; the batch driver alone puts "(No text detected)" for an
\* empty document text, with or without a header before it.
C9_PlaceholderOnlyFromBatchDriver ==
    batch_pc = "done" =>
        \A i \in 1..Len(file_paths) :
            walked[i].kind = "ok" =>
                LET pages == file_paths[i].pages
                    empty == \A p \in 1..Len(pages) : \A d \in 1..Len(pages[p]) :
                                 strip(pages[p][d].text) = <<>>
                    text == walked[i].text
                    entry == outputs[i]
                IN  /\ empty <=> (text = <<>>)
                    /\ \A k \in 1..Len(text) : text[k] # "(No text detected)"
                    /\ text = <<>> =>
                           entry = IF Len(file_paths) > 1
                                   THEN <<"# ">> \o FileName(file_paths[i])
                                            \o <<"\n", "(No text detected)">>
                                   ELSE <<"(No text detected)">>
                    /\ text # <<>> =>
                           \A k \in 1..Len(entry) : entry[k] # "(No text detected)"

C9_Witness ==
    /\ batch_pc = "done"
    /\ Len(file_paths) = 2
    /\ file_paths[1] = ImageNone
    /\ file_paths[2] = ImageBlank
    /\ walked[1].kind = "ok"
    /\ walked[2].kind = "ok"

\* C10: the handle is written only by a construction that succeeds.  A
\* construction that fails leaves the session unconstructed and gives the
\* error entry of the file it was tried for; the next acquire tries the
\* construction again, and the session is bound to the Language Set of
\* the first acquire that succeeds.
C10_FailedConstructionLeavesSessionUnconstructed ==
    [][ /\ \A k \in 1..Len(acquires') :
               acquires'[k].outcome = "failed" =>
                   LET i == acquires'[k].file
                   IN  /\ walked'[i].kind = "raised"
                       /\ outputs'[i] = <<"[error] Failed to process ">>
                                            \o FileName(file_paths'[i]) \o <<": ">> \o EngineError
                       /\ \A j \in 1..(k - 1) : acquires'[j].outcome = "failed"
                       /\ k < Len(acquires') =>
                              /\ acquires'[k + 1].outcome \in {"constructed", "failed"}
                              /\ acquires'[k + 1].file > i
        /\ (_reader = None /\ batch_pc = "called" /\ acquires' # <<>>) =>
               acquires'[1].outcome \in {"constructed", "failed"}
        /\ (\A k \in 1..Len(acquires') : acquires'[k].outcome # "constructed") =>
               _reader' = _reader
        /\ _reader' # _reader =>
               \E k \in 1..Len(acquires') :
                   /\ acquires'[k].outcome = "constructed"
                   /\ _reader' = acquires'[k].got
                   /\ _reader'.lang_list = Default(acquires'[k].languages)
      ]_vars

C10_Witness ==
    /\ batch_pc = "done"
    /\ _reader # None
    /\ first_langs.set
    /\ Default(first_langs.languages) # _reader.lang_list
    /\ \E k \in 1..(Len(acquires) - 1) :
           /\ acquires[k].outcome = "failed"
           /\ acquires[k + 1].outcome = "constructed"
           /\ acquires[k + 1].got = _reader

====
